---- MODULE Spec2Model ----
(***************************************************************************)
(* Persona store and generation request lifecycle of app.py.               *)
(*                                                                         *)
(* The personas directory is modelled as the set of persona directories,   *)
(* the reference files each holds and its config.json; audio files are     *)
(* modelled by their content, parameters by their Python value (type and   *)
(* hundredths), a JSON file by the JSON values it holds.                   *)
(***************************************************************************)
EXTENDS Integers, Sequences, FiniteSets, TLC

VARIABLES
    rootExists,   \* os.path.exists(PERSONAS_DIR)
    rootFiles,    \* entries of PERSONAS_DIR that are plain files
    dirs,         \* entries of PERSONAS_DIR that are directories
    refs,         \* refs[n][f]: content of PERSONAS_DIR/n/f, NoFile if absent
    hasConfig,    \* names n for which PERSONAS_DIR/n/config.json exists
    cfg,          \* cfg[n]: the JSON object held by PERSONAS_DIR/n/config.json
    temps,        \* number of temporary files created by generate_audio
    last,         \* the last call: its arguments, what it did and its outcome
    savedOK,      \* history: names of the save_persona calls that returned
    savesFailed,  \* history: some save_persona call raised
    genFailed,    \* history: some generate_audio call raised GenerationError
    pc,           \* concurrent saves: position of each caller in save_persona
    req,          \* concurrent saves: arguments of each caller
    copied,       \* concurrent saves: content each caller copied
    copyOrder,    \* concurrent saves: callers in the order they copied
    writeOrder    \* concurrent saves: callers in the order they wrote config

vars == <<rootExists, rootFiles, dirs, refs, hasConfig, cfg, temps, last,
          savedOK, savesFailed, genFailed, pc, req, copied, copyOrder, writeOrder>>

storeVars == <<rootExists, rootFiles, dirs, refs, hasConfig, cfg>>

histVars == <<savedOK, savesFailed, genFailed>>

raceVars == <<pc, req, copied, copyOrder, writeOrder>>

-----------------------------------------------------------------------------
(* Bounds *)

\* temporary files generate_audio may create in one run of the model
MaxTemps == 2

-----------------------------------------------------------------------------
(* Names, paths and file contents *)

\* the value None, as a name or as text
None == "<None>"

\* the persona names of the model (single path components)
StoreNames == {"A", "B", "C"}

\* the persona names most callers use
Names == {"A", "B"}

\* names a caller can pass: a persona name, the empty string or None
NameInputs == Names \cup {"", None}

\* a plain file that may lie in PERSONAS_DIR
StrayNames == {"B"}

\* code point of the first character of a name, the key sorted() compares
Ord(n) == CASE n = "A" -> 65 [] n = "B" -> 66 [] n = "C" -> 67 [] OTHER -> 0

\* Python truthiness of a string or None: `not x`
Falsy(x) == x = "" \/ x = None

NoFile == "<absent>"

Partial == "<partial>"

\* f"reference{ext}"
RefName(ext) == CASE ext = ".wav" -> "reference.wav"
                  [] ext = ".mp3" -> "reference.mp3"

RefFiles == {"reference.wav", "reference.mp3"}

\* os.path.splitext(path)[1] on the file names of the model
splitext(file) == CASE file \in {"a.wav", "missing.wav", "locked.wav", "reference.wav"} -> ".wav"
                    [] file \in {"b.mp3", "reference.mp3"} -> ".mp3"
                    [] OTHER -> ""

NoPath == [kind |-> "none", dir |-> "", file |-> ""]

\* a path outside PERSONAS_DIR
Outside(file) == [kind |-> "outside", dir |-> "/tmp", file |-> file]

\* os.path.join(PERSONAS_DIR, name, file)
PersonaFile(name, file) == [kind |-> "persona", dir |-> name, file |-> file]

OutsidePaths == {Outside(f) : f \in {"a.wav", "b.mp3", "clip", "missing.wav", "locked.wav"}}

PersonaPaths == {PersonaFile(n, f) : n \in Names, f \in RefFiles}

\* values of the audio_prompt argument: None or a file path
AudioInputs == {NoPath} \cup OutsidePaths \cup PersonaPaths

\* content of the files outside PERSONAS_DIR
OutsideContent(file) == CASE file = "a.wav" -> "audio-a"
                          [] file = "b.mp3" -> "audio-b"
                          [] file = "clip" -> "audio-c"
                          [] file = "locked.wav" -> "audio-l"
                          [] OTHER -> NoFile

\* content of the file at path p, NoFile if there is none
Content(p, d, r) ==
    IF p.kind = "outside" THEN OutsideContent(p.file)
    ELSE IF p.kind = "persona" /\ p.dir \in d /\ p.file \in RefFiles THEN r[p.dir][p.file]
    ELSE NoFile

\* whether the process may open p for reading
Readable(p) == ~(p.kind = "outside" /\ p.file = "locked.wav")

-----------------------------------------------------------------------------
(* Python values, parameters and JSON *)

Keys == {"repetition_penalty", "min_p", "top_p", "exaggeration", "cfg_weight", "temperature"}

AllKeys == Keys \cup {"audio_filename"}

\* a Python float, int or str; v is the number in hundredths, s the text
PyFloat(v) == [t |-> "float", v |-> v, s |-> ""]

PyInt(v) == [t |-> "int", v |-> v, s |-> ""]

PyStr(s, v) == [t |-> "str", v |-> v, s |-> s]

\* float(x) raises ValueError on a string that is no number (v = -1)
FloatFails(x) == x.t = "str" /\ x.v < 0

\* float(x)
float(x) == PyFloat(x.v)

\* Python ==: numbers compare by value, strings by text, never a str with a number
PyEq(x, y) == IF x.t = "str" \/ y.t = "str"
              THEN x.t = y.t /\ x.s = y.s
              ELSE x.v = y.v

P1 == [repetition_penalty |-> PyFloat(120), min_p |-> PyFloat(5), top_p |-> PyFloat(100),
       exaggeration |-> PyFloat(50), cfg_weight |-> PyFloat(50), temperature |-> PyFloat(80)]

\* a slider may deliver a whole number as an integer
P2 == [repetition_penalty |-> PyInt(200), min_p |-> PyFloat(10), top_p |-> PyInt(0),
       exaggeration |-> PyFloat(25), cfg_weight |-> PyInt(100), temperature |-> PyFloat(110)]

\* a serialising front end may deliver numbers as strings
P3 == [repetition_penalty |-> PyStr("1.75", 175), min_p |-> PyStr("0.2", 20), top_p |-> PyInt(1),
       exaggeration |-> PyStr("1", 100), cfg_weight |-> PyFloat(75), temperature |-> PyInt(100)]

\* a usage error: a value that is no number
P4 == [repetition_penalty |-> PyFloat(120), min_p |-> PyFloat(5), top_p |-> PyFloat(100),
       exaggeration |-> PyFloat(50), cfg_weight |-> PyFloat(50), temperature |-> PyStr("hot", -1)]

ParamInputs == {P1, P2, P3, P4}

\* a ParameterSet of the data model: all six fields present and numeric
IsParameterSet(P) == \A k \in Keys : P[k].t \in {"float", "int"}

\* a JSON number (frac: written with a fraction or exponent) or string
JNum(v, frac) == [t |-> "num", frac |-> frac, v |-> v, s |-> ""]

JStr(s) == [t |-> "str", frac |-> FALSE, v |-> 0, s |-> s]

\* json.dump of one value: repr of a float always carries a fraction
json_dump(x) == IF x.t = "float" THEN JNum(x.v, TRUE)
                ELSE IF x.t = "int" THEN JNum(x.v, FALSE)
                ELSE JStr(x.s)

\* json.load of one value
json_load(j) == IF j.t = "num" THEN (IF j.frac THEN PyFloat(j.v) ELSE PyInt(j.v))
                ELSE PyStr(j.s, -1)

EmptyObject == [k \in {} |-> JStr("")]

-----------------------------------------------------------------------------
(* The record of a call *)

NoParams == [k \in Keys |-> PyStr("", -1)]

NoCall == [op |-> "none", name |-> "", audio |-> NoPath, P |-> NoParams, text |-> "",
           outcome |-> "none", msg |-> <<>>, access |-> FALSE,
           calls |-> 0, raised |-> "", src |-> NoFile, retPath |-> NoPath, retP |-> NoParams,
           retList |-> <<>>, retTemp |-> 0]

\* exceptions raised with gr.Error, by the line that raises them
ValidationError == "ValidationError"

NotFoundError == "NotFoundError"

GenerationError == "GenerationError"

-----------------------------------------------------------------------------
(* get_persona_list *)

\* the orders in which os.listdir may return the entries S
Listings(S) == {l \in [1..Cardinality(S) -> S] : {l[i] : i \in 1..Cardinality(S)} = S}

\* the sequence s with x inserted before the first element that sorts after x
Insert(x, s) ==
    LET k == Cardinality({i \in 1..Len(s) : Ord(s[i]) <= Ord(x)})
    IN  SubSeq(s, 1, k) \o <<x>> \o SubSeq(s, k + 1, Len(s))

RECURSIVE sorted(_)
\* sorted(personas)
sorted(s) == IF s = <<>> THEN <<>> ELSE Insert(s[Len(s)], sorted(SubSeq(s, 1, Len(s) - 1)))

\* the names in the order of os.listdir
get_persona_list_Unsorted(exists, listing, d) ==
    IF exists
    THEN SelectSeq(listing, LAMBDA name : name \in d)
    ELSE <<>>

\* get_persona_list(), os.listdir returning the entries in the order `listing`
get_persona_list(exists, listing, d) ==
    IF exists
    THEN sorted(SelectSeq(listing, LAMBDA name : name \in d))
    ELSE <<>>

-----------------------------------------------------------------------------
(* save_persona *)

\* the extension of the stored copy: that of the source, ".wav" if it has none
SavedExt(audio_prompt) ==
    LET ext == splitext(audio_prompt.file)
    IN  IF ext = "" THEN ".wav" ELSE ext

\* how shutil.copy2(audio_prompt, saved_audio_path) ends
CopyOutcome(name, audio_prompt, d, r, fault) ==
    LET dst == RefName(SavedExt(audio_prompt))
        c   == Content(audio_prompt, d, r)
    IN  IF c # NoFile /\ audio_prompt = PersonaFile(name, dst) THEN "SameFileError"
        ELSE IF c = NoFile THEN "FileNotFoundError"
        ELSE IF ~Readable(audio_prompt) THEN "PermissionError"
        ELSE IF fault THEN "OSError"
        ELSE "copied"

\* an existing destination is left as it is
CopyResult_NoOverwrite(name, audio_prompt, d, r, fault) ==
    LET dst == RefName(SavedExt(audio_prompt))
        out == CopyOutcome(name, audio_prompt, d, r, fault)
    IN  IF out = "copied" /\ r[name][dst] = NoFile
        THEN [r EXCEPT ![name][dst] = Content(audio_prompt, d, r)]
        ELSE r

\* the reference files after shutil.copy2: a copy that fails while writing
\* leaves a truncated destination
CopyResult(name, audio_prompt, d, r, fault) ==
    LET dst == RefName(SavedExt(audio_prompt))
        out == CopyOutcome(name, audio_prompt, d, r, fault)
    IN  IF out = "copied" THEN [r EXCEPT ![name][dst] = Content(audio_prompt, d, r)]
        ELSE IF out = "OSError" THEN [r EXCEPT ![name][dst] = Partial]
        ELSE r

\* the stored file name ignores the extension
ConfigRecord_FixedName(P, ext) ==
    [k \in AllKeys |-> IF k = "audio_filename" THEN JStr("reference.wav")
                       ELSE json_dump(float(P[k]))]

\* the config dict as json.dump writes it
ConfigRecord(P, ext) ==
    [k \in AllKeys |-> IF k = "audio_filename" THEN JStr(RefName(ext))
                       ELSE json_dump(float(P[k]))]

\* how a whole save_persona call ends
SaveOutcome(name, audio_prompt, P, fault) ==
    IF Falsy(name) THEN ValidationError
    ELSE IF audio_prompt.kind = "none" THEN ValidationError
    ELSE IF name \in rootFiles THEN "FileExistsError"
    ELSE IF CopyOutcome(name, audio_prompt, dirs \cup {name}, refs, fault) # "copied"
         THEN CopyOutcome(name, audio_prompt, dirs \cup {name}, refs, fault)
    ELSE IF \E k \in Keys : FloatFails(P[k]) THEN "ValueError"
    ELSE "returned"

\* config.json is written before the audio is copied
ConfigWritten_BeforeCopy(out) == out \notin {ValidationError, "FileExistsError"}

\* whether a save_persona call that ends with `out` has written config.json:
\* the write follows makedirs, the copy and the six conversions
ConfigWritten(out) == out = "returned"

\* save_persona(name, audio_prompt, ...); io_fault: the copy runs out of space.
\* The Dropdown it returns is built from get_persona_list(), which changes
\* nothing, and from name.
save_persona(name, audio_prompt, P, io_fault) ==
    LET out    == SaveOutcome(name, audio_prompt, P, io_fault)
        made   == out \notin {ValidationError, "FileExistsError"}
        d2     == IF made THEN dirs \cup {name} ELSE dirs
        r2     == IF made THEN CopyResult(name, audio_prompt, d2, refs, io_fault) ELSE refs
    IN  /\ rootExists' = (rootExists \/ made)
        /\ dirs' = d2
        /\ refs' = r2
        /\ hasConfig' = IF ConfigWritten(out) THEN hasConfig \cup {name} ELSE hasConfig
        /\ cfg' = IF ConfigWritten(out)
                  THEN [cfg EXCEPT ![name] = ConfigRecord(P, SavedExt(audio_prompt))]
                  ELSE cfg
        /\ last' = [NoCall EXCEPT !.op = "save", !.name = name, !.audio = audio_prompt,
                        !.P = P, !.outcome = out, !.access = made,
                        !.src = IF made THEN Content(audio_prompt, d2, refs) ELSE NoFile]
        /\ savedOK' = IF out = "returned" THEN savedOK \cup {name} ELSE savedOK
        /\ savesFailed' = (savesFailed \/ out # "returned")
        /\ UNCHANGED <<rootFiles, temps, genFailed>>
        /\ UNCHANGED raceVars

-----------------------------------------------------------------------------
(* load_persona *)

\* config.get(key, default)
ConfigGet(config, key, default) ==
    IF key \in DOMAIN config THEN json_load(config[key]) ELSE default

\* the defaults of the sliders' lower ends
Defaults_SliderMinimum ==
    [repetition_penalty |-> PyFloat(100), min_p |-> PyFloat(0), top_p |-> PyFloat(0),
     exaggeration |-> PyFloat(0), cfg_weight |-> PyFloat(0), temperature |-> PyFloat(10)]

\* the defaults of load_persona
Defaults == [repetition_penalty |-> PyFloat(120), min_p |-> PyFloat(5), top_p |-> PyFloat(100),
             exaggeration |-> PyFloat(50), cfg_weight |-> PyFloat(50), temperature |-> PyFloat(80)]

\* the six parameters load_persona returns for a config record
LoadedParams(config) == [k \in Keys |-> ConfigGet(config, k, Defaults[k])]

\* the audio path load_persona returns for a config record
LoadedAudio(name, config) ==
    PersonaFile(name, ConfigGet(config, "audio_filename", PyStr("reference.wav", -1)).s)

\* a persona without config.json loads as an empty record
LoadCall_NoExistsCheck(name) ==
    IF Falsy(name)
    THEN [NoCall EXCEPT !.op = "load", !.name = name, !.outcome = "noupdate"]
    ELSE [NoCall EXCEPT !.op = "load", !.name = name, !.access = TRUE,
                        !.outcome = "returned",
                        !.retPath = LoadedAudio(name, cfg[name]),
                        !.retP = LoadedParams(cfg[name])]

\* the record of a load_persona call
LoadCall(name) ==
    IF Falsy(name)
    THEN [NoCall EXCEPT !.op = "load", !.name = name, !.outcome = "noupdate"]
    ELSE IF name \notin hasConfig
    THEN [NoCall EXCEPT !.op = "load", !.name = name, !.access = TRUE,
                        !.outcome = NotFoundError]
    ELSE [NoCall EXCEPT !.op = "load", !.name = name, !.access = TRUE,
                        !.outcome = "returned",
                        !.retPath = LoadedAudio(name, cfg[name]),
                        !.retP = LoadedParams(cfg[name])]

\* load_persona(name)
load_persona(name) ==
    /\ last' = LoadCall(name)
    /\ UNCHANGED <<storeVars, temps, histVars>>
    /\ UNCHANGED raceVars

\* refresh_personas(), os.listdir answering `listing`
refresh_personas(listing) ==
    /\ last' = [NoCall EXCEPT !.op = "list", !.outcome = "returned", !.access = TRUE,
                              !.retList = get_persona_list(rootExists, listing, dirs)]
    /\ UNCHANGED <<storeVars, temps, histVars>>
    /\ UNCHANGED raceVars

-----------------------------------------------------------------------------
(* generate_audio *)

TextInputs == {"", None, "Hello there"}

\* what the environment lets the call meet: synthesis succeeds, synthesis
\* fails, or the waveform cannot be written to the temporary file
SynthInputs == {"ok", "error", "save-error"}

\* model.generate(text, ..., audio_prompt_path=audio_prompt): fails on a
\* reference path it cannot read, may fail for reasons of its own
model_generate(audio_prompt, synth) ==
    IF audio_prompt.kind # "none"
       /\ (Content(audio_prompt, dirs, refs) = NoFile \/ ~Readable(audio_prompt))
    THEN [ok |-> FALSE, msg |-> "cannot open reference audio"]
    ELSE IF synth = "error" THEN [ok |-> FALSE, msg |-> "synthesis error"]
    ELSE [ok |-> TRUE, msg |-> ""]

\* f"Generation failed: {str(e)}"
GenerationFailed(e) == <<"Generation failed: ", e>>

\* `not text` finds only None
TextMissing_OnlyNone(text) == text = None

\* `not text`: the text is None or empty
TextMissing(text) == Falsy(text)

\* the exception leaves generate_audio as it was raised
WrapFailure_Bare(call, e, invoked) ==
    [call EXCEPT !.outcome = "Exception", !.calls = invoked, !.raised = e, !.msg = <<e>>]

\* except Exception as e: raise gr.Error(f"Generation failed: {str(e)}")
WrapFailure(call, e, invoked) ==
    [call EXCEPT !.outcome = GenerationError, !.calls = invoked, !.raised = e,
                 !.msg = GenerationFailed(e)]

\* the record of a generate_audio call
GenerateCall(text, P, audio_prompt, synth) ==
    LET call == [NoCall EXCEPT !.op = "generate", !.text = text, !.P = P,
                               !.audio = audio_prompt]
        wav  == model_generate(audio_prompt, synth)
    IN  IF TextMissing(text)
        THEN [call EXCEPT !.outcome = ValidationError,
                          !.msg = <<"Please enter text to generate.">>]
        ELSE IF \E k \in Keys : FloatFails(P[k])
        THEN WrapFailure(call, "could not convert string to float", 0)
        ELSE IF ~wav.ok
        THEN WrapFailure(call, wav.msg, 1)
        ELSE IF synth = "save-error"
        THEN [WrapFailure(call, "cannot write audio", 1) EXCEPT !.retTemp = temps + 1]
        ELSE [call EXCEPT !.outcome = "returned", !.calls = 1, !.retTemp = temps + 1]

\* generate_audio(text, ..., audio_prompt, ...)
generate_audio(text, P, audio_prompt, synth) ==
    LET call == GenerateCall(text, P, audio_prompt, synth)
    IN  /\ call.retTemp <= MaxTemps
        /\ last' = call
        /\ temps' = IF call.retTemp > 0 THEN call.retTemp ELSE temps
        /\ genFailed' = (genFailed \/ call.outcome = GenerationError)
        /\ UNCHANGED <<storeVars, savedOK, savesFailed>>
        /\ UNCHANGED raceVars

-----------------------------------------------------------------------------
(* One caller at a time *)

Procs == {1, 2}

NoRequest == [name |-> "", audio |-> NoPath, P |-> NoParams, fault |-> FALSE]

EmptyStore ==
    /\ dirs = {}
    /\ refs = [n \in StoreNames |-> [f \in RefFiles |-> NoFile]]
    /\ hasConfig = {}
    /\ cfg = [n \in StoreNames |-> EmptyObject]
    /\ temps = 0
    /\ last = NoCall
    /\ savedOK = {}
    /\ savesFailed = FALSE
    /\ genFailed = FALSE

NoRace ==
    /\ pc = [p \in Procs |-> "idle"]
    /\ req = [p \in Procs |-> NoRequest]
    /\ copied = [p \in Procs |-> NoFile]
    /\ copyOrder = <<>>
    /\ writeOrder = <<>>

\* after import: PERSONAS_DIR was made; it may since have been removed, or a
\* plain file put into it
Init ==
    /\ rootExists \in BOOLEAN
    /\ rootFiles \in SUBSET StrayNames
    /\ (~rootExists => rootFiles = {})
    /\ EmptyStore
    /\ NoRace

\* the save_persona calls of the main model: a persona name or none, no
\* audio or a path that can be read if it exists, parameters that are floats,
\* that hold integers, that are no numbers
SaveInputs ==
    (Names \cup {""}) \X (AudioInputs \ {Outside("locked.wav")}) \X {P1, P2, P4} \X {FALSE}

SaveWith(inputs) == \E i \in inputs : save_persona(i[1], i[2], i[3], i[4])

Save == SaveWith(SaveInputs)

Load == \E name \in NameInputs : load_persona(name)

List == \E listing \in Listings(dirs \cup rootFiles) : refresh_personas(listing)

Generate ==
    \E text \in TextInputs, P \in ParamInputs, audio_prompt \in AudioInputs, synth \in SynthInputs :
        generate_audio(text, P, audio_prompt, synth)

Next == Save \/ Load \/ List

Spec == Init /\ [][Next]_vars

-----------------------------------------------------------------------------
(* Saves that meet a full disk, an unreadable source, a numeric string *)

FaultInputs ==
    (({"A", "", None} \X AudioInputs \X ParamInputs \X {FALSE})
        \cup ({"A", "", None} \X AudioInputs \X {P1} \X {TRUE})
        \cup ({"B"} \X {Outside("a.wav"), Outside("missing.wav")} \X {P1} \X {FALSE}))

SaveFaulty == SaveWith(FaultInputs)

NextFault == SaveFaulty \/ Load \/ List

SpecFault == Init /\ [][NextFault]_vars

-----------------------------------------------------------------------------
(* Listing after saves under three names *)

ListSaveInputs ==
    (StoreNames \cup {""}) \X {Outside("a.wav"), Outside("missing.wav")} \X {P1} \X {FALSE}

SaveForList == SaveWith(ListSaveInputs)

LoadAny == \E name \in StoreNames : load_persona(name)

NextList == SaveForList \/ LoadAny \/ List

SpecList == Init /\ [][NextList]_vars

-----------------------------------------------------------------------------
(* Generation requests against a store that holds a persona or not *)

GenSaveInputs == {"A"} \X {Outside("a.wav"), Outside("b.mp3")} \X {P1} \X {FALSE}

SaveForGen == SaveWith(GenSaveInputs)

NextGen == Generate \/ SaveForGen

SpecGen == Init /\ [][NextGen]_vars

-----------------------------------------------------------------------------
(* Config records written by an older version or edited by hand *)

\* the config record of `name` loses the field `key`
OlderConfig(name, key) ==
    /\ name \in hasConfig
    /\ key \in DOMAIN cfg[name]
    /\ cfg' = [cfg EXCEPT ![name] = [k \in (DOMAIN cfg[name]) \ {key} |-> cfg[name][k]]]
    /\ last' = [NoCall EXCEPT !.op = "edit", !.name = name]
    /\ UNCHANGED <<rootExists, rootFiles, dirs, refs, hasConfig, temps, histVars>>
    /\ UNCHANGED raceVars

Edit == \E name \in Names, key \in AllKeys : OlderConfig(name, key)

LegacySaveInputs == {"A"} \X {Outside("a.wav"), Outside("b.mp3")} \X {P1, P2} \X {FALSE}

SaveForLegacy == SaveWith(LegacySaveInputs)

NextLegacy == SaveForLegacy \/ Edit \/ Load \/ List

SpecLegacy == Init /\ [][NextLegacy]_vars

-----------------------------------------------------------------------------
(* Two callers in save_persona at once: each of makedirs, copy2 and the  *)
(* write of config.json is one step                                       *)

RaceRequests ==
    [name : {"A", ""},
     audio : {Outside("a.wav"), Outside("clip"), Outside("b.mp3"), Outside("missing.wav")},
     P : {P1, P2, P4},
     fault : {FALSE}]

InitRace ==
    /\ rootExists = TRUE
    /\ rootFiles = {}
    /\ EmptyStore
    /\ pc = [p \in Procs |-> "validate"]
    /\ req \in [Procs -> RaceRequests]
    /\ copied = [p \in Procs |-> NoFile]
    /\ copyOrder = <<>>
    /\ writeOrder = <<>>

\* lines 82-85
Validate(p) ==
    /\ pc[p] = "validate"
    /\ pc' = [pc EXCEPT ![p] = IF Falsy(req[p].name) \/ req[p].audio.kind = "none"
                               THEN "raised" ELSE "makedirs"]
    /\ UNCHANGED <<storeVars, temps, last, histVars, req, copied, copyOrder,
                   writeOrder>>

\* lines 87-88
MakeDirs(p) ==
    /\ pc[p] = "makedirs"
    /\ pc' = [pc EXCEPT ![p] = IF req[p].name \in rootFiles THEN "raised" ELSE "copy"]
    /\ dirs' = IF req[p].name \in rootFiles THEN dirs ELSE dirs \cup {req[p].name}
    /\ UNCHANGED <<rootExists, rootFiles, refs, hasConfig, cfg, temps, last,
                   histVars, req, copied, copyOrder, writeOrder>>

\* lines 91-96
CopyAudio(p) ==
    LET out == CopyOutcome(req[p].name, req[p].audio, dirs, refs, req[p].fault)
    IN  /\ pc[p] = "copy"
        /\ pc' = [pc EXCEPT ![p] = IF out = "copied" THEN "config" ELSE "raised"]
        /\ refs' = CopyResult(req[p].name, req[p].audio, dirs, refs, req[p].fault)
        /\ copied' = [copied EXCEPT ![p] = IF out = "copied"
                                           THEN Content(req[p].audio, dirs, refs)
                                           ELSE NoFile]
        /\ copyOrder' = IF out = "copied" THEN Append(copyOrder, p) ELSE copyOrder
        /\ UNCHANGED <<rootExists, rootFiles, dirs, hasConfig, cfg, temps, last,
                       histVars, req, writeOrder>>

\* lines 98-111
WriteConfig(p) ==
    LET bad == \E k \in Keys : FloatFails(req[p].P[k])
    IN  /\ pc[p] = "config"
        /\ pc' = [pc EXCEPT ![p] = IF bad THEN "raised" ELSE "returned"]
        /\ hasConfig' = IF bad THEN hasConfig ELSE hasConfig \cup {req[p].name}
        /\ cfg' = IF bad THEN cfg
                  ELSE [cfg EXCEPT ![req[p].name] =
                            ConfigRecord(req[p].P, SavedExt(req[p].audio))]
        /\ writeOrder' = IF bad THEN writeOrder ELSE Append(writeOrder, p)
        /\ UNCHANGED <<rootExists, rootFiles, dirs, refs, temps, last,
                       histVars, req, copied, copyOrder>>

NextRace == \E p \in Procs : Validate(p) \/ MakeDirs(p) \/ CopyAudio(p) \/ WriteConfig(p)

SpecRace == InitRace /\ [][NextRace]_vars

-----------------------------------------------------------------------------
(* Properties *)

\* the six parameters P and Q are equal field by field
SameParams(P, Q) == \A k \in Keys : PyEq(P[k], Q[k])

\* C1: a save_persona call that returned, immediately followed by
\* load_persona of the same name, makes the load return the six parameters
\* saved, field by field, and a path inside the persona directory whose file
\* holds what the source file held when it was saved.
C1_RoundTrip ==
    [][(/\ last.op = "save" /\ last.outcome = "returned" /\ IsParameterSet(last.P)
        /\ last'.op = "load" /\ last'.name = last.name)
       => (/\ last'.outcome = "returned"
           /\ SameParams(last'.retP, last.P)
           /\ last'.retPath.kind = "persona"
           /\ last'.retPath.dir = last.name
           /\ last.src # NoFile
           /\ Content(last'.retPath, dirs', refs') = last.src)]_vars

\* C1: persona A, saved before with another extension and after persona B,
\* loads with the integers-and-floats set P2 and the audio of the file "clip"
C1_Witness ==
    /\ last.op = "load" /\ last.name = "A" /\ last.outcome = "returned"
    /\ SameParams(last.retP, P2)
    /\ last.retPath = PersonaFile("A", "reference.wav")
    /\ Content(last.retPath, dirs, refs) = "audio-c"
    /\ refs["A"]["reference.mp3"] = "audio-b"
    /\ "B" \in hasConfig

\* C2: a save_persona call for a name that has a persona, with a non-empty
\* name, a reference audio file that is present and readable and numeric
\* parameters, returns, and load_persona of the name then gives the
\* parameters and the audio of this call.
C2_Overwrite ==
    [][(/\ last'.op = "save" /\ ~Falsy(last'.name) /\ last'.name \in hasConfig
        /\ last'.audio.kind # "none"
        /\ Content(last'.audio, dirs, refs) # NoFile
        /\ Readable(last'.audio)
        /\ IsParameterSet(last'.P))
       => (/\ last'.outcome = "returned"
           /\ SameParams(LoadedParams(cfg'[last'.name]), last'.P)
           /\ Content(LoadedAudio(last'.name, cfg'[last'.name]), dirs', refs')
                = Content(last'.audio, dirs, refs))]_vars

\* the names in s are exactly those of S, each once, ascending
IsAscendingListOf(s, S) ==
    /\ Len(s) = Cardinality(S)
    /\ {s[i] : i \in 1..Len(s)} = S
    /\ \A i, j \in 1..Len(s) : i < j => Ord(s[i]) < Ord(s[j])

\* C3: list() returns; it returns the empty sequence when the root is absent
\* or empty; when the root started empty and every save so far returned, it
\* returns the names saved, each once, in ascending order.
C3_List ==
    last.op = "list" =>
        /\ last.outcome = "returned"
        /\ (~rootExists \/ dirs \cup rootFiles = {}) => last.retList = <<>>
        /\ (rootFiles = {} /\ ~savesFailed) => IsAscendingListOf(last.retList, savedOK)

\* C3: three personas saved, no save failed, the list is A, B, C
C3_Witness ==
    /\ last.op = "list" /\ rootFiles = {} /\ ~savesFailed
    /\ savedOK = {"A", "B", "C"}
    /\ last.retList = <<"A", "B", "C">>

\* C4: generate_audio with empty or absent text raises the validation error,
\* does not invoke the collaborator, creates no temporary file and leaves
\* the persona store as it was.
C4_EmptyText ==
    [][(last'.op = "generate" /\ Falsy(last'.text))
       => (/\ last'.outcome = ValidationError
           /\ last'.calls = 0
           /\ last'.retTemp = 0
           /\ temps' = temps
           /\ UNCHANGED storeVars)]_vars

\* C4: a call with empty text has raised while a persona is stored
C4_Witness ==
    /\ last.op = "generate" /\ last.text = "" /\ last.outcome = ValidationError
    /\ last.calls = 0
    /\ "A" \in hasConfig

\* C5: generate_audio with non-empty text and numeric parameters invokes the
\* collaborator exactly once and either returns a temporary file created by
\* this call or raises GenerationError; a failure of the collaborator (as on
\* a reference path that does not exist) is raised as GenerationError with
\* the collaborator's message; the store is untouched, also when an earlier
\* call failed.
C5_OneAttempt ==
    [][(/\ last'.op = "generate" /\ ~Falsy(last'.text)
        /\ \A k \in Keys : ~FloatFails(last'.P[k]))
       => (/\ last'.calls = 1
           /\ last'.outcome \in {"returned", GenerationError}
           /\ last'.outcome = "returned"
                => (last'.raised = "" /\ last'.retTemp = temps + 1 /\ temps' = last'.retTemp)
           /\ last'.raised # ""
                => (/\ last'.outcome = GenerationError
                    /\ last'.msg = <<"Generation failed: ", last'.raised>>)
           /\ last'.outcome = GenerationError => last'.raised # ""
           /\ (last'.audio.kind # "none" /\ Content(last'.audio, dirs, refs) = NoFile)
                => last'.outcome = GenerationError
           /\ UNCHANGED storeVars)]_vars

\* C5: a call returns a temporary file after an earlier call failed
C5_Witness ==
    /\ last.op = "generate" /\ last.outcome = "returned" /\ last.calls = 1
    /\ last.retTemp = 1
    /\ genFailed

\* C6: load_persona with an absent or empty name touches no file and does
\* not raise; with a name that has no config.json it raises NotFoundError
\* and returns nothing; the store is the same before and after.
C6_Load ==
    [][last'.op = "load"
       => (/\ Falsy(last'.name)
                => (last'.outcome = "noupdate" /\ ~last'.access)
           /\ (~Falsy(last'.name) /\ last'.name \notin hasConfig)
                => (/\ last'.outcome = NotFoundError
                    /\ last'.retPath = NoPath
                    /\ last'.retP = NoParams)
           /\ (Falsy(last'.name) \/ last'.name \notin hasConfig) => UNCHANGED storeVars)]_vars

\* C6: a load of a persona directory without config record has raised
C6_Witness ==
    /\ last.op = "load" /\ last.outcome = NotFoundError
    /\ last.name \in dirs
    /\ hasConfig # {}

\* C7: a save_persona call that raises leaves every config.json as it was,
\* or absent; a call that writes one has copied the audio before.
C7_ConfigAfterCopy ==
    [][last'.op = "save"
       => (/\ last'.outcome # "returned" => (cfg' = cfg /\ hasConfig' = hasConfig)
           /\ (cfg' # cfg \/ hasConfig' # hasConfig)
                => (/\ last'.src # NoFile
                    /\ refs'[last'.name][RefName(SavedExt(last'.audio))] = last'.src))]_vars

\* C7: a copy that ran out of space has truncated the reference file of a
\* persona whose config record stands
C7_Witness ==
    /\ last.op = "save" /\ last.outcome = "OSError"
    /\ last.name \in hasConfig
    /\ refs[last.name]["reference.wav"] = Partial
    /\ LoadedAudio(last.name, cfg[last.name]).file = "reference.wav"

BothReturned == \A p \in Procs : pc[p] = "returned"

\* the caller that wrote config.json last
LastWriter == writeOrder[Len(writeOrder)]

\* the caller that copied last to the reference file `file`
LastCopier(file) ==
    LET I == {i \in 1..Len(copyOrder) : RefName(SavedExt(req[copyOrder[i]].audio)) = file}
    IN  copyOrder[CHOOSE i \in I : \A j \in I : j <= i]

\* C8 as claimed: after two concurrent saves of one name that both returned,
\* the parameters, the audio file name and the audio are those of the call
\* that wrote config.json last.
C8_NoMixture ==
    (BothReturned /\ req[1].name = req[2].name) =>
        LET n == req[1].name
            w == LastWriter
        IN  /\ SameParams(LoadedParams(cfg[n]), req[w].P)
            /\ LoadedAudio(n, cfg[n]).file = RefName(SavedExt(req[w].audio))
            /\ Content(LoadedAudio(n, cfg[n]), dirs, refs) = copied[w]

\* C8 amended: config.json is that of the call that wrote it last, the
\* reference file it names holds the audio of the call that copied to that
\* file name last; they are one call's when the two calls' extensions differ
\* or the last writer copied last.
C8_LastWriterPerFile ==
    (BothReturned /\ req[1].name = req[2].name) =>
        LET n == req[1].name
            w == LastWriter
            f == LoadedAudio(n, cfg[n])
        IN  /\ SameParams(LoadedParams(cfg[n]), req[w].P)
            /\ f.file = RefName(SavedExt(req[w].audio))
            /\ Content(f, dirs, refs) = copied[LastCopier(f.file)]
            /\ (SavedExt(req[1].audio) # SavedExt(req[2].audio) \/ LastCopier(f.file) = w)
                 => Content(f, dirs, refs) = copied[w]

\* C8: caller 1 copied first and wrote config.json last: its parameters
\* stand with the audio of caller 2
C8_Witness ==
    /\ BothReturned
    /\ req[1].name = req[2].name
    /\ copyOrder = <<1, 2>> /\ writeOrder = <<2, 1>>
    /\ req[1].audio = Outside("a.wav") /\ req[2].audio = Outside("clip")
    /\ SameParams(LoadedParams(cfg["A"]), req[1].P)
    /\ ~SameParams(req[1].P, req[2].P)
    /\ refs["A"]["reference.wav"] = "audio-c"

\* the defaults the specification documents, in hundredths
DocumentedDefault(k) ==
    CASE k = "repetition_penalty" -> 120 [] k = "min_p" -> 5 [] k = "top_p" -> 100
      [] k = "exaggeration" -> 50 [] k = "cfg_weight" -> 50 [] k = "temperature" -> 80

\* C9: load_persona of a config record that lacks fields returns; each
\* parameter the record lacks has its documented default, each it holds has
\* the stored value; a record without audio file name gives reference.wav in
\* the persona directory, whether that file exists or not.
C9_Defaults ==
    (last.op = "load" /\ ~Falsy(last.name) /\ last.name \in hasConfig) =>
        LET config == cfg[last.name]
        IN  /\ last.outcome = "returned"
            /\ \A k \in Keys :
                 IF k \in DOMAIN config
                 THEN last.retP[k].v = config[k].v
                      /\ last.retP[k].t = (IF config[k].frac THEN "float" ELSE "int")
                 ELSE last.retP[k] = PyFloat(DocumentedDefault(k))
            /\ last.retPath.kind = "persona" /\ last.retPath.dir = last.name
            /\ last.retPath.file = IF "audio_filename" \in DOMAIN config
                                   THEN config["audio_filename"].s
                                   ELSE "reference.wav"

\* C9: a record that holds only min_p has loaded, and the reference.wav the
\* load names does not exist
C9_Witness ==
    /\ last.op = "load" /\ last.outcome = "returned"
    /\ DOMAIN cfg[last.name] = {"min_p"}
    /\ last.retP["min_p"] = PyFloat(10)
    /\ last.retP["temperature"] = PyFloat(80)
    /\ last.retPath = PersonaFile(last.name, "reference.wav")
    /\ Content(last.retPath, dirs, refs) = NoFile

\* C10: in a root that started empty, every name list() returns has a
\* config.json, so that load_persona of it does not raise NotFoundError.
C10_ListedLoadable ==
    (last.op = "list" /\ rootFiles = {}) =>
        \A i \in 1..Len(last.retList) : last.retList[i] \in hasConfig

====
